---------------------------- MODULE Spec2Model ----------------------------
(***************************************************************************)
(* The no-self-assign rule of src/rules/noSelfAssignRule.ts.               *)
(*                                                                         *)
(* A syntax node is a tuple whose first component is its SyntaxKind; the   *)
(* remaining components are the kind-specific children the rule reads.     *)
(* A node is addressed by its path: the sequence of (1-based) child        *)
(* indexes, in ts.forEachChild order, that leads to it from the source     *)
(* file.  A failure is the pair of the node it is anchored at and its      *)
(* message.                                                                *)
(***************************************************************************)
EXTENDS Integers, Sequences, FiniteSets, TLC

(***************************************************************************)
(* Bounds of the explored syntax trees.                                    *)
(***************************************************************************)
MaxElements == 3    \* elements of an array literal / pattern
MaxRightProps == 3  \* properties of a right-hand object literal
MaxChain == 2       \* names of a property-access chain
MaxNest == 2        \* nesting depth of assignments in assignments

(***************************************************************************)
(* Syntax nodes.                                                           *)
(***************************************************************************)
undefined == <<"undefined">>

Identifier(text) == <<"Identifier", text>>
ThisKeyword == <<"ThisKeyword">>
StringLiteral(text) == <<"StringLiteral", text>>
NumericLiteral(text) == <<"NumericLiteral", text>>
OmittedExpression == <<"OmittedExpression">>
Token(kind) == <<"Token", kind>>
CallExpression(expression) == <<"CallExpression", expression>>
PropertyAccessExpression(expression, name) ==
    <<"PropertyAccessExpression", expression, name>>
ElementAccessExpression(expression, argumentExpression) ==
    <<"ElementAccessExpression", expression, argumentExpression>>
ArrayLiteralExpression(elements) == <<"ArrayLiteralExpression", elements>>
ObjectLiteralExpression(properties) == <<"ObjectLiteralExpression", properties>>
SpreadElement(expression) == <<"SpreadElement", expression>>
SpreadAssignment(expression) == <<"SpreadAssignment", expression>>
ShorthandPropertyAssignment(name, objectAssignmentInitializer) ==
    <<"ShorthandPropertyAssignment", name, objectAssignmentInitializer>>
PropertyAssignment(name, initializer) == <<"PropertyAssignment", name, initializer>>
BinaryExpression(left, operator, right) ==
    <<"BinaryExpression", left, Token(operator), right>>
PropertyDeclaration(name, initializer) == <<"PropertyDeclaration", name, initializer>>
ClassDeclaration(name, members) == <<"ClassDeclaration", name, members>>
ExpressionStatement(expression) == <<"ExpressionStatement", expression>>
SourceFile(statements) == <<"SourceFile", statements>>

kind(node) == node[1]

isIdentifier(node) == kind(node) = "Identifier"
isLiteralExpression(node) == kind(node) \in {"StringLiteral", "NumericLiteral"}
isPropertyAccessExpression(node) == kind(node) = "PropertyAccessExpression"
isElementAccessExpression(node) == kind(node) = "ElementAccessExpression"
isArrayLiteralExpression(node) == kind(node) = "ArrayLiteralExpression"
isObjectLiteralExpression(node) == kind(node) = "ObjectLiteralExpression"
isSpreadElement(node) == kind(node) = "SpreadElement"
isSpreadAssignment(node) == kind(node) = "SpreadAssignment"
isShorthandPropertyAssignment(node) == kind(node) = "ShorthandPropertyAssignment"
isBinaryExpression(node) == kind(node) = "BinaryExpression"
isPropertyDeclaration(node) == kind(node) = "PropertyDeclaration"

Present(nodes) == SelectSeq(nodes, LAMBDA n : n # undefined)

(* ts.forEachChild: the children of a node, in source order. *)
forEachChild(node) ==
    CASE kind(node) \in {"SourceFile", "ArrayLiteralExpression",
                         "ObjectLiteralExpression"} -> node[2]
      [] kind(node) = "ClassDeclaration" -> <<node[2]>> \o node[3]
      [] kind(node) \in {"ExpressionStatement", "CallExpression",
                         "SpreadElement", "SpreadAssignment"} -> <<node[2]>>
      [] kind(node) \in {"PropertyAccessExpression", "ElementAccessExpression",
                         "ShorthandPropertyAssignment", "PropertyAssignment",
                         "PropertyDeclaration"} -> Present(<<node[2], node[3]>>)
      [] kind(node) = "BinaryExpression" -> <<node[2], node[3], node[4]>>
      [] OTHER -> <<>>

RECURSIVE NodeAt(_, _)
NodeAt(root, path) ==
    IF path = <<>> THEN root
    ELSE NodeAt(forEachChild(root)[Head(path)], Tail(path))

ChildPaths(node, path) ==
    [i \in 1..Len(forEachChild(node)) |-> path \o <<i>>]

(* node.getText(): the source text of a node. *)
RECURSIVE getText(_)
RECURSIVE JoinText(_, _)
JoinText(nodes, sep) ==
    IF nodes = <<>> THEN ""
    ELSE IF Len(nodes) = 1 THEN getText(nodes[1])
    ELSE getText(nodes[1]) \o sep \o JoinText(Tail(nodes), sep)

getText(node) ==
    CASE kind(node) = "Identifier" -> node[2]
      [] kind(node) = "ThisKeyword" -> "this"
      [] kind(node) = "StringLiteral" -> "\"" \o node[2] \o "\""
      [] kind(node) = "NumericLiteral" -> node[2]
      [] kind(node) = "OmittedExpression" -> ""
      [] kind(node) = "Token" -> node[2]
      [] kind(node) = "CallExpression" -> getText(node[2]) \o "()"
      [] kind(node) = "PropertyAccessExpression" ->
            getText(node[2]) \o "." \o getText(node[3])
      [] kind(node) = "ElementAccessExpression" ->
            getText(node[2]) \o "[" \o getText(node[3]) \o "]"
      [] kind(node) = "ArrayLiteralExpression" -> "[" \o JoinText(node[2], ", ") \o "]"
      [] kind(node) = "ObjectLiteralExpression" -> "{" \o JoinText(node[2], ", ") \o "}"
      [] kind(node) \in {"SpreadElement", "SpreadAssignment"} -> "..." \o getText(node[2])
      [] kind(node) = "ShorthandPropertyAssignment" ->
            IF node[3] = undefined THEN getText(node[2])
            ELSE getText(node[2]) \o " = " \o getText(node[3])
      [] kind(node) = "PropertyAssignment" -> getText(node[2]) \o ": " \o getText(node[3])
      [] kind(node) = "BinaryExpression" ->
            getText(node[2]) \o " " \o getText(node[3]) \o " " \o getText(node[4])
      [] OTHER -> ""

(***************************************************************************)
(* The rule.                                                               *)
(***************************************************************************)
FAILURE_STRING(name) == "variable '" \o name \o "' is assigned to itself."

(* report(node): ctx.addFailureAtNode(node, FAILURE_STRING(node.getText())) *)
report(node, path) == <<[node |-> path, failure |-> FAILURE_STRING(getText(node))]>>

isSameIdentifier(left, right) ==
    isIdentifier(left) /\ isIdentifier(right) /\ left[2] = right[2]

isSameProperty(left, right) ==
    IF isPropertyAccessExpression(left) /\ isPropertyAccessExpression(right)
       /\ left[3][2] = right[3][2]
    THEN TRUE
    ELSE FALSE

RECURSIVE isSameMember(_, _)

(* isSameMember without the comparison of the two bases *)
isSameMember_anyBase(left, right) ==
    IF ~isSameProperty(left, right) THEN FALSE
    ELSE LET leftExp == left[2]
             rightExp == right[2]
         IN IF isPropertyAccessExpression(leftExp) /\ isPropertyAccessExpression(rightExp)
            THEN isSameMember(leftExp, rightExp)
            ELSE kind(leftExp) = kind(rightExp)

isSameMember(left, right) ==
    IF ~isSameProperty(left, right) THEN FALSE
    ELSE LET leftExp == left[2]
             rightExp == right[2]
         IN IF isPropertyAccessExpression(leftExp) /\ isPropertyAccessExpression(rightExp)
            THEN isSameMember(leftExp, rightExp)
            ELSE isIdentifier(leftExp) /\ isIdentifier(rightExp)
                 /\ leftExp[2] = rightExp[2]

(* isSameElementAccess comparing the text of the keys whatever their kinds *)
isSameElementAccess_anyKey(left, right) ==
    LET leftArg == left[3]
        rightArg == right[3]
    IN /\ isSameIdentifier(left[2], right[2])
       /\ leftArg # undefined /\ rightArg # undefined
       /\ isIdentifier(leftArg) \/ isLiteralExpression(leftArg)
       /\ isIdentifier(rightArg) \/ isLiteralExpression(rightArg)
       /\ leftArg[2] = rightArg[2]

isSameElementAccess(left, right) ==
    LET leftExp == left[2]
        rightExp == right[2]
        leftArg == left[3]
        rightArg == right[3]
    IN IF isSameIdentifier(leftExp, rightExp)
          /\ leftArg # undefined /\ rightArg # undefined
       THEN IF isIdentifier(leftArg) /\ isIdentifier(rightArg)
            THEN leftArg[2] = rightArg[2]
            ELSE IF isLiteralExpression(leftArg) /\ isLiteralExpression(rightArg)
                 THEN leftArg[2] = rightArg[2]
                 ELSE FALSE
       ELSE FALSE

(* isPropertySelfAssigned without the test that the base is `this` *)
isPropertySelfAssigned_anyBase(prop) ==
    LET name == prop[2]
        initializer == prop[3]
    IN /\ isIdentifier(name) /\ initializer # undefined
       /\ isPropertyAccessExpression(initializer)
       /\ isIdentifier(initializer[3])
       /\ name[2] = initializer[3][2]

isPropertySelfAssigned(prop) ==
    LET name == prop[2]
        initializer == prop[3]
    IN IF isIdentifier(name) /\ initializer # undefined
          /\ isPropertyAccessExpression(initializer)
       THEN LET initializerName == initializer[3]
                expression == initializer[2]
            IN kind(expression) = "ThisKeyword" /\ isIdentifier(initializerName)
               /\ name[2] = initializerName[2]
       ELSE FALSE

(* Index (1-based) after the last spread property; the first index when there is none. *)
RECURSIVE startRightFrom(_, _)
startRightFrom(properties, i) ==
    IF i < 1 THEN 1
    ELSE IF isSpreadAssignment(properties[i]) THEN i + 1
    ELSE startRightFrom(properties, i - 1)

(* startRight found by a forward scan that stops at the first spread *)
startRight_firstSpread(properties) ==
    IF \E i \in 1..Len(properties) : isSpreadAssignment(properties[i])
    THEN 1 + CHOOSE i \in 1..Len(properties) :
                /\ isSpreadAssignment(properties[i])
                /\ \A j \in 1..(i - 1) : ~isSpreadAssignment(properties[j])
    ELSE 1

startRight(properties) == startRightFrom(properties, Len(properties))

(* A truthy test of an option object's props field; the object is the set
   of its (field, value) pairs, an absent field reads as undefined. *)
props(options) == <<"props", TRUE>> \in options

(* checkAccess with the element-access check not guarded by the option *)
checkAccess_elementUnguarded(left, right, rightPath, options) ==
    IF props(options) /\ isPropertyAccessExpression(left)
       /\ isPropertyAccessExpression(right) /\ isSameMember(left, right)
    THEN report(right, rightPath)
    ELSE IF isElementAccessExpression(left)
            /\ isElementAccessExpression(right)
            /\ isSameElementAccess(left, right)
         THEN report(right, rightPath)
         ELSE <<>>

(* The end of doCheck: a.b = a.b, which returns, then a["b"] = a["b"]. *)
checkAccess(left, right, rightPath, options) ==
    IF props(options) /\ isPropertyAccessExpression(left)
       /\ isPropertyAccessExpression(right) /\ isSameMember(left, right)
    THEN report(right, rightPath)
    ELSE IF props(options) /\ isElementAccessExpression(left)
            /\ isElementAccessExpression(right)
            /\ isSameElementAccess(left, right)
         THEN report(right, rightPath)
         ELSE <<>>

RECURSIVE doCheck(_, _, _, _)
RECURSIVE checkElements(_, _, _, _, _, _)
RECURSIVE checkProperties(_, _, _, _, _, _)

(* checkElements without the break at a spread element *)
checkElements_noBreak(left, right, rightPath, options, i, end) ==
    IF i > end THEN <<>>
    ELSE doCheck(left[2][i], right[2][i], rightPath \o <<i>>, options)
         \o checkElements(left, right, rightPath, options, i + 1, end)

(* The loop over the elements of two array literals, from index i. *)
checkElements(left, right, rightPath, options, i, end) ==
    IF i > end THEN <<>>
    ELSE doCheck(left[2][i], right[2][i], rightPath \o <<i>>, options)
         \o (IF isSpreadElement(right[2][i]) THEN <<>>
             ELSE checkElements(left, right, rightPath, options, i + 1, end))

(* The nested loops over the properties of two object literals, at (i, j). *)
checkProperties(left, right, rightPath, options, i, j) ==
    IF i > Len(left[2]) THEN <<>>
    ELSE IF j > Len(right[2])
         THEN checkProperties(left, right, rightPath, options, i + 1,
                              startRight(right[2]))
         ELSE doCheck(left[2][i], right[2][j], rightPath \o <<j>>, options)
              \o checkProperties(left, right, rightPath, options, i, j + 1)

Min(a, b) == IF a < b THEN a ELSE b

(* doCheck(left, right): the failures it reports, in order; rightPath is the
   path of right. *)
doCheck(left, right, rightPath, options) ==
    IF left = undefined \/ right = undefined THEN <<>>
    ELSE
      (IF isSameIdentifier(left, right) THEN report(right, rightPath) ELSE <<>>)
      \o (IF isArrayLiteralExpression(left) /\ isArrayLiteralExpression(right)
          THEN checkElements(left, right, rightPath, options, 1,
                             Min(Len(left[2]), Len(right[2])))
          ELSE <<>>)
      \o (IF isObjectLiteralExpression(left) /\ isObjectLiteralExpression(right)
          THEN checkProperties(left, right, rightPath, options, 1,
                               startRight(right[2]))
          ELSE <<>>)
      \o (IF isShorthandPropertyAssignment(left) /\ left[3] = undefined
             /\ isShorthandPropertyAssignment(right)
          THEN doCheck(left[2], right[2], rightPath \o <<1>>, options)
          ELSE <<>>)
      \o checkAccess(left, right, rightPath, options)


(***************************************************************************)
(* The explored inputs: source files and rule arguments.                   *)
(***************************************************************************)
SeqsUpTo(S, n) == UNION {[1..k -> S] : k \in 0..n}

Assignment(left, right) == ExpressionStatement(BinaryExpression(left, "=", right))

Names == {Identifier("a"), Identifier("b")}

(* [a, b] = [a, ...r] *)
LeftElements == Names
RightElements == Names \cup {SpreadElement(Identifier("r"))}
ArrayStatements ==
    {Assignment(ArrayLiteralExpression(l), ArrayLiteralExpression(r)) :
        l \in SeqsUpTo(LeftElements, MaxElements),
        r \in SeqsUpTo(RightElements, MaxElements)}

(* ({a, b = 1} = {a, ...x, a: b}) *)
LeftPatterns ==
    LET a == ShorthandPropertyAssignment(Identifier("a"), undefined)
        b == ShorthandPropertyAssignment(Identifier("b"), undefined)
        a1 == ShorthandPropertyAssignment(Identifier("a"), NumericLiteral("1"))
        aa == PropertyAssignment(Identifier("a"), Identifier("a"))
    IN {<<>>, <<a>>, <<b>>, <<a, b>>, <<b, a>>, <<a, a>>, <<a1>>, <<a1, b>>, <<aa, b>>}
RightProperties ==
    {ShorthandPropertyAssignment(n, undefined) : n \in Names}
    \cup {SpreadAssignment(Identifier("x")),
          PropertyAssignment(Identifier("a"), Identifier("b"))}
ObjectStatements ==
    {Assignment(ObjectLiteralExpression(l), ObjectLiteralExpression(r)) :
        l \in LeftPatterns,
        r \in SeqsUpTo(RightProperties, MaxRightProps)}

(* a.x.y = a.x.y, this.x = this.x, f().x = f().x, a[0].x = a[0].x *)
RECURSIVE Chain(_, _)
Chain(base, names) ==
    IF names = <<>> THEN base
    ELSE Chain(PropertyAccessExpression(base, Head(names)), Tail(names))

ChainBases == Names \cup {ThisKeyword}
ChainNames == {Identifier("x"), Identifier("y")}
Chains ==
    {Chain(base, names) :
        base \in ChainBases, names \in SeqsUpTo(ChainNames, MaxChain) \ {<<>>}}
OtherBases ==
    {CallExpression(Identifier("f")),
     ElementAccessExpression(Identifier("a"), NumericLiteral("0"))}
MemberStatements ==
    {Assignment(l, r) : l \in Chains, r \in Chains}
    \cup {Assignment(Chain(base, <<name>>), Chain(base, <<name>>)) :
             base \in OtherBases, name \in ChainNames}

(* a["x"] = a["x"], a[x] = a[y], a[f()] = a[f()], a.b["x"] = a.b["x"] *)
ElementBases == Names \cup {PropertyAccessExpression(Identifier("a"), Identifier("b"))}
ElementKeys ==
    {Identifier("x"), Identifier("y"), StringLiteral("x"), StringLiteral("1"),
     NumericLiteral("1"), CallExpression(Identifier("f")),
     PropertyAccessExpression(Identifier("a"), Identifier("x"))}
ElementAccesses ==
    {ElementAccessExpression(base, key) : base \in ElementBases, key \in ElementKeys}
ElementStatements == {Assignment(l, r) : l \in ElementAccesses, r \in ElementAccesses}

(* class C { foo = this.foo; "foo" = this.foo; bar = (a.foo = a.foo); } *)
FieldNames == {Identifier("foo"), Identifier("bar"), StringLiteral("foo")}
FieldInitializers ==
    {undefined, Identifier("foo"),
     PropertyAccessExpression(ThisKeyword, Identifier("foo")),
     PropertyAccessExpression(ThisKeyword, Identifier("bar")),
     PropertyAccessExpression(Identifier("other"), Identifier("foo")),
     ElementAccessExpression(ThisKeyword, StringLiteral("foo")),
     BinaryExpression(PropertyAccessExpression(Identifier("a"), Identifier("foo")), "=",
                      PropertyAccessExpression(Identifier("a"), Identifier("foo")))}
Fields ==
    {PropertyDeclaration(name, initializer) :
        name \in FieldNames, initializer \in FieldInitializers}
ClassStatements ==
    {ClassDeclaration(Identifier("C"), members) : members \in SeqsUpTo(Fields, 2) \ {<<>>}}

(* a = b = b, x += x, [a] = [...b = b] *)
RECURSIVE Nested(_)
Nested(depth) ==
    IF depth = 0 THEN Names
    ELSE LET inner == Nested(depth - 1)
         IN Names
            \cup {BinaryExpression(l, op, r) : l \in Names, op \in {"=", "+="}, r \in inner}
            \cup {BinaryExpression(ArrayLiteralExpression(<<l>>), "=",
                                   ArrayLiteralExpression(<<SpreadElement(r)>>)) :
                     l \in Names, r \in inner}
NestedStatements(depth) ==
    {ExpressionStatement(e) : e \in {n \in Nested(depth) : isBinaryExpression(n)}}

SourceFiles ==
    {SourceFile(<<s>>) :
        s \in ArrayStatements \cup ObjectStatements \cup MemberStatements
              \cup ElementStatements \cup ClassStatements \cup NestedStatements(MaxNest)}
    \cup {SourceFile(<<s, t>>) : s \in NestedStatements(1), t \in NestedStatements(1)}

(* this.ruleArguments: none, or one option object *)
RuleArguments ==
    {<<>>, <<{}>>, <<{<<"props", TRUE>>}>>, <<{<<"props", FALSE>>}>>}

(***************************************************************************)
(* One run of the rule over a source file.                                 *)
(***************************************************************************)
VARIABLES
    sourceFile,     \* the tree being linted
    ruleArguments,  \* the arguments the rule was configured with
    pc,             \* "apply", "walk" or "done"
    options,        \* ctx.options
    stack,          \* paths of the nodes still to visit, next first
    visited,        \* paths of the nodes visited, in order
    failures        \* ctx.failures

vars == <<sourceFile, ruleArguments, pc, options, stack, visited, failures>>

Init ==
    /\ sourceFile \in SourceFiles
    /\ ruleArguments \in RuleArguments
    /\ pc = "apply"
    /\ options = {}
    /\ stack = <<>>
    /\ visited = <<>>
    /\ failures = <<>>

(* const opt = this.ruleArguments.length > 0 ? this.ruleArguments[0] : { props: true } *)
opt(arguments) ==
    IF Len(arguments) > 0 THEN arguments[1] ELSE {<<"props", TRUE>>}

(* Rule.apply up to the first callback of ts.forEachChild(ctx.sourceFile, recur) *)
apply ==
    /\ pc = "apply"
    /\ options' = opt(ruleArguments)
    /\ stack' = ChildPaths(sourceFile, <<>>)
    /\ pc' = "walk"
    /\ UNCHANGED <<sourceFile, ruleArguments, visited, failures>>

(* recurFailures calling doCheck(node.right, node.left) *)
recurFailures_swapped(node, path, ctxOptions) ==
    (IF isBinaryExpression(node) /\ node[3] = Token("=")
     THEN doCheck(node[4], node[2], path \o <<1>>, ctxOptions)
     ELSE <<>>)
    \o (IF isPropertyDeclaration(node) /\ isPropertySelfAssigned(node)
        THEN report(node[3], path \o <<2>>)
        ELSE <<>>)

(* The failures recur(node) reports for node itself. *)
recurFailures(node, path, ctxOptions) ==
    (IF isBinaryExpression(node) /\ node[3] = Token("=")
     THEN doCheck(node[2], node[4], path \o <<3>>, ctxOptions)
     ELSE <<>>)
    \o (IF isPropertyDeclaration(node) /\ isPropertySelfAssigned(node)
        THEN report(node[3], path \o <<2>>)
        ELSE <<>>)

(* recurChildren of a walker that does not descend into an assignment that
   matched *)
recurChildren_stopOnMatch(node, path, rest) ==
    IF isBinaryExpression(node) /\ node[3] = Token("=")
       /\ isSameIdentifier(node[2], node[4])
    THEN rest
    ELSE ChildPaths(node, path) \o rest

(* The nodes still to visit once recur(node) has been entered. *)
recurChildren(node, path, rest) == ChildPaths(node, path) \o rest

(* recur(node), up to its first nested call *)
recur ==
    /\ pc = "walk"
    /\ stack # <<>>
    /\ LET path == Head(stack)
           node == NodeAt(sourceFile, path)
       IN /\ failures' = failures \o recurFailures(node, path, options)
          /\ stack' = recurChildren(node, path, Tail(stack))
          /\ visited' = Append(visited, path)
    /\ UNCHANGED <<sourceFile, ruleArguments, pc, options>>

(* applyWithFunction returns ctx.failures *)
return ==
    /\ pc = "walk"
    /\ stack = <<>>
    /\ pc' = "done"
    /\ UNCHANGED <<sourceFile, ruleArguments, options, stack, visited, failures>>

Next == apply \/ recur \/ return

Spec == Init /\ [][Next]_vars


(***************************************************************************)
(* Vocabulary of the properties.                                           *)
(***************************************************************************)
IsPrefix(p, q) == Len(p) <= Len(q) /\ SubSeq(q, 1, Len(p)) = p

Front(p) == SubSeq(p, 1, Len(p) - 1)

RECURSIVE Flatten(_)
Flatten(seqs) == IF seqs = <<>> THEN <<>> ELSE Head(seqs) \o Flatten(Tail(seqs))

(* The paths of a subtree in pre-order, the root of the subtree first. *)
RECURSIVE PreOrder(_, _)
PreOrder(node, path) ==
    <<path>> \o Flatten([i \in 1..Len(forEachChild(node)) |->
                            PreOrder(forEachChild(node)[i], path \o <<i>>)])

(* Every node below the source file, in pre-order. *)
AllNodes == Tail(PreOrder(sourceFile, <<>>))

IsAssignment(node) == isBinaryExpression(node) /\ node[3] = Token("=")

(* A node's own findings, as section 4.1 of the specification states them. *)
OwnFindings(path, ctxOptions) ==
    LET node == NodeAt(sourceFile, path)
    IN IF IsAssignment(node)
       THEN doCheck(node[2], node[4], path \o <<3>>, ctxOptions)
       ELSE IF isPropertyDeclaration(node) /\ isPropertySelfAssigned(node)
            THEN report(node[3], path \o <<2>>)
            ELSE <<>>

FindingsOver(paths, ctxOptions) ==
    Flatten([k \in 1..Len(paths) |-> OwnFindings(paths[k], ctxOptions)])

Statement(s) == sourceFile = SourceFile(<<s>>)

Id(text) == Identifier(text)

(***************************************************************************)
(* C10: the walker visits every node exactly once, in pre-order, and never *)
(* stops early on a match: when the walk returns, the nodes visited are    *)
(* the nodes of the tree in pre-order and the output is the concatenation, *)
(* in that order, of their own findings.  A node contributes only if it is *)
(* an `=` expression or a self-assigned field: `a = b = b` and `x = x`     *)
(* yield one finding, `x += x` none.                                       *)
(***************************************************************************)
C10_PreOrderWalk ==
    /\ pc = "done" => /\ visited = AllNodes
                      /\ failures = FindingsOver(AllNodes, options)
    /\ pc = "done" /\ Statement(ExpressionStatement(
            BinaryExpression(Id("a"), "=", BinaryExpression(Id("b"), "=", Id("b")))))
         => Len(failures) = 1 /\ failures[1].node = <<1, 1, 3, 3>>
    /\ pc = "done" /\ Statement(Assignment(Id("a"), Id("a"))) => Len(failures) = 1
    /\ pc = "done" /\ Statement(ExpressionStatement(
            BinaryExpression(Id("a"), "+=", Id("a")))) => failures = <<>>

(* A finished walk of [a] = [...b = b]: the self-assignment nested in the
   spread, below an assignment that matched nothing, is found. *)
C10_Witness ==
    /\ pc = "done"
    /\ Statement(ExpressionStatement(
          BinaryExpression(ArrayLiteralExpression(<<Id("a")>>), "=",
              ArrayLiteralExpression(<<SpreadElement(
                  BinaryExpression(Id("b"), "=", Id("b")))>>))))
    /\ failures = <<[node |-> <<1, 1, 3, 1, 1, 3>>,
                     failure |-> "variable 'b' is assigned to itself."]>>
    /\ Len(visited) = 11

(***************************************************************************)
(* C9: every finding is anchored at the right-hand node of the pair that   *)
(* matched (an identifier, a property access or an element access below    *)
(* the right operand of an assignment, none below its left operand) or at  *)
(* a field initializer, and its message is exactly                         *)
(* variable '<text>' is assigned to itself. with <text> the source text of *)
(* the anchor.                                                             *)
(***************************************************************************)
UnderOperand(path, operand) ==
    \E n \in 1..Len(path) :
        /\ IsAssignment(NodeAt(sourceFile, SubSeq(path, 1, n - 1)))
        /\ path[n] = operand

IsFieldInitializer(path) ==
    /\ path # <<>>
    /\ isPropertyDeclaration(NodeAt(sourceFile, Front(path)))
    /\ path[Len(path)] = 2

C9_AnchorAndMessage ==
    \A k \in 1..Len(failures) :
        LET f == failures[k]
            anchor == NodeAt(sourceFile, f.node)
        IN /\ \/ IsFieldInitializer(f.node)
              \/ /\ UnderOperand(f.node, 3)
                 /\ ~UnderOperand(f.node, 1)
                 /\ kind(anchor) \in {"Identifier", "PropertyAccessExpression",
                                      "ElementAccessExpression"}
           /\ f.failure = "variable '" \o getText(anchor) \o "' is assigned to itself."

(* a.x.y = a.x.y reported with the full text of the right-hand chain. *)
C9_Witness ==
    /\ pc = "done"
    /\ failures = <<[node |-> <<1, 1, 3>>,
                     failure |-> "variable 'a.x.y' is assigned to itself."]>>

(***************************************************************************)
(* C2: the output with checkProperties false is the output with            *)
(* checkProperties true with the property-access and element-access        *)
(* findings removed, order unchanged: a.x.y = a.x.y and a["x"] = a["x"]    *)
(* yield nothing with the option false, and identifier, destructuring and  *)
(* field-initializer findings are the same under both values.              *)
(***************************************************************************)
IsAccessFinding(f) ==
    /\ kind(NodeAt(sourceFile, f.node)) \in {"PropertyAccessExpression",
                                             "ElementAccessExpression"}
    /\ ~IsFieldInitializer(f.node)

WithoutAccessFindings(findings) ==
    SelectSeq(findings, LAMBDA f : ~IsAccessFinding(f))

C2_OptionRemovesAccessFindings ==
    pc = "done" =>
        /\ ~props(options) =>
              failures = WithoutAccessFindings(FindingsOver(AllNodes, {<<"props", TRUE>>}))
        /\ props(options) =>
              WithoutAccessFindings(failures) = FindingsOver(AllNodes, {<<"props", FALSE>>})
        /\ ~props(options)
           /\ ( \/ Statement(Assignment(Chain(Id("a"), <<Id("x"), Id("y")>>),
                                        Chain(Id("a"), <<Id("x"), Id("y")>>)))
                \/ Statement(Assignment(ElementAccessExpression(Id("a"), StringLiteral("x")),
                                        ElementAccessExpression(Id("a"), StringLiteral("x")))) )
           => failures = <<>>

(* a["x"] = a["x"] walked to the end with {props: false}: no finding. *)
C2_Witness ==
    /\ pc = "done"
    /\ ruleArguments = <<{<<"props", FALSE>>}>>
    /\ Statement(Assignment(ElementAccessExpression(Id("a"), StringLiteral("x")),
                            ElementAccessExpression(Id("a"), StringLiteral("x"))))
    /\ failures = <<>>

(***************************************************************************)
(* The node the walker visits next.                                        *)
(***************************************************************************)
Visiting == pc = "walk" /\ stack # <<>>
CurrentPath == Head(stack)
Current == NodeAt(sourceFile, CurrentPath)
RightPath == CurrentPath \o <<3>>
Reported == SubSeq(failures', Len(failures) + 1, Len(failures'))
Finding(path) ==
    [node |-> path, failure |-> FAILURE_STRING(getText(NodeAt(sourceFile, path)))]

(***************************************************************************)
(* C4: for an assignment between two bracketed element lists the pairs     *)
(* checked are the same-index pairs up to the smaller of the shorter       *)
(* length and the first spread of the right list, in increasing order, and *)
(* nothing after the first right-side spread is reported:                  *)
(* [a, b] = [a, b] yields two findings, [a, b] = [a, ...r] and             *)
(* [a, b, a] = [a, ...r, a] yield one.                                     *)
(***************************************************************************)
FirstSpread(elements) ==
    IF \E i \in 1..Len(elements) : isSpreadElement(elements[i])
    THEN CHOOSE i \in 1..Len(elements) :
            /\ isSpreadElement(elements[i])
            /\ \A j \in 1..(i - 1) : ~isSpreadElement(elements[j])
    ELSE Len(elements)

VisitingArrays ==
    /\ Visiting
    /\ IsAssignment(Current)
    /\ isArrayLiteralExpression(Current[2])
    /\ isArrayLiteralExpression(Current[4])

ArrayList(names) == ArrayLiteralExpression([i \in 1..Len(names) |-> Id(names[i])])

C4_ArrayPairs ==
    [][ /\ VisitingArrays =>
            LET left == Current[2][2]
                right == Current[4][2]
                last == Min(Min(Len(left), Len(right)), FirstSpread(right))
            IN /\ failures' = failures \o Flatten([i \in 1..last |->
                      doCheck(left[i], right[i], RightPath \o <<i>>, options)])
               /\ \A k \in 1..Len(Reported) :
                      Reported[k].node[Len(RightPath) + 1] <= FirstSpread(right)
        /\ pc' = "done" /\ Statement(Assignment(ArrayList(<<"a", "b">>),
                                               ArrayList(<<"a", "b">>)))
             => Len(failures') = 2
        /\ pc' = "done"
           /\ ( \/ Statement(Assignment(ArrayList(<<"a", "b">>),
                       ArrayLiteralExpression(<<Id("a"), SpreadElement(Id("r"))>>)))
                \/ Statement(Assignment(ArrayList(<<"a", "b", "a">>),
                       ArrayLiteralExpression(<<Id("a"), SpreadElement(Id("r")), Id("a")>>))) )
             => Len(failures') = 1
      ]_vars

(* [a, b, a] = [a, ...r, a] walked to the end: only the first a is reported. *)
C4_Witness ==
    /\ pc = "done"
    /\ Statement(Assignment(ArrayList(<<"a", "b", "a">>),
           ArrayLiteralExpression(<<Id("a"), SpreadElement(Id("r")), Id("a")>>)))
    /\ Len(failures) = 1
    /\ failures[1].node = <<1, 1, 3, 1>>

(***************************************************************************)
(* C5: for an assignment between two object literals, the findings are one *)
(* per pair (left property i, right property j) with j after the last      *)
(* spread of the right side, both shorthand with the same name and the     *)
(* left one without default value, in left-major, right-minor order, each  *)
(* anchored at the name of the right property.                             *)
(***************************************************************************)
LastSpread(properties) ==
    IF \E j \in 1..Len(properties) : isSpreadAssignment(properties[j])
    THEN CHOOSE j \in 1..Len(properties) :
            /\ isSpreadAssignment(properties[j])
            /\ \A n \in (j + 1)..Len(properties) : ~isSpreadAssignment(properties[n])
    ELSE 0

MatchingPairs(left, right) ==
    LET nR == Len(right)
        all == [k \in 1..(Len(left) * nR) |-> <<((k - 1) \div nR) + 1, ((k - 1) % nR) + 1>>]
    IN SelectSeq(all, LAMBDA pr :
          /\ pr[2] > LastSpread(right)
          /\ isShorthandPropertyAssignment(left[pr[1]])
          /\ isShorthandPropertyAssignment(right[pr[2]])
          /\ left[pr[1]][3] = undefined
          /\ left[pr[1]][2][2] = right[pr[2]][2][2])

VisitingObjects ==
    /\ Visiting
    /\ IsAssignment(Current)
    /\ isObjectLiteralExpression(Current[2])
    /\ isObjectLiteralExpression(Current[4])

Shorthand(text) == ShorthandPropertyAssignment(Id(text), undefined)
Pattern(names) == ObjectLiteralExpression([i \in 1..Len(names) |-> Shorthand(names[i])])

C5_ObjectPairs ==
    [][ /\ VisitingObjects =>
            LET pairs == MatchingPairs(Current[2][2], Current[4][2])
            IN failures' = failures \o
                   [k \in 1..Len(pairs) |-> Finding(RightPath \o <<pairs[k][2], 1>>)]
        /\ pc' = "done"
           /\ ( \/ Statement(Assignment(Pattern(<<"a", "b">>), Pattern(<<"a", "b">>)))
                \/ Statement(Assignment(Pattern(<<"a", "b">>), Pattern(<<"b", "a">>)))
                \/ Statement(Assignment(Pattern(<<"a", "b">>), ObjectLiteralExpression(
                       <<SpreadAssignment(Id("x")), Shorthand("a"), Shorthand("b")>>))) )
             => Len(failures') = 2
        /\ pc' = "done"
           /\ Statement(Assignment(Pattern(<<"a", "b">>), ObjectLiteralExpression(
                  <<Shorthand("a"), SpreadAssignment(Id("x")), Shorthand("b")>>)))
             => failures' = <<Finding(<<1, 1, 3, 3, 1>>)>>
        /\ pc' = "done"
           /\ Statement(Assignment(
                  ObjectLiteralExpression(
                      <<ShorthandPropertyAssignment(Id("a"), NumericLiteral("1"))>>),
                  Pattern(<<"a">>)))
             => failures' = <<>>
      ]_vars

(* ({a, b} = {a, ...x, b}) walked to the end: only b, after the spread. *)
C5_Witness ==
    /\ pc = "done"
    /\ Statement(Assignment(Pattern(<<"a", "b">>), ObjectLiteralExpression(
           <<Shorthand("a"), SpreadAssignment(Id("x")), Shorthand("b")>>)))
    /\ failures = <<[node |-> <<1, 1, 3, 3, 1>>,
                     failure |-> "variable 'b' is assigned to itself."]>>

(***************************************************************************)
(* C6: with checkProperties true, an assignment between two                *)
(* property-access chains yields exactly one finding if the chains have    *)
(* the same names at every level (hence the same length) and bases that    *)
(* are identifiers with the same text, and no finding otherwise.           *)
(***************************************************************************)
RECURSIVE ChainNamesOf(_)
ChainNamesOf(node) ==
    IF isPropertyAccessExpression(node)
    THEN Append(ChainNamesOf(node[2]), node[3][2])
    ELSE <<>>

RECURSIVE ChainBaseOf(_)
ChainBaseOf(node) ==
    IF isPropertyAccessExpression(node) THEN ChainBaseOf(node[2]) ELSE node

SameChain(left, right) ==
    /\ ChainNamesOf(left) = ChainNamesOf(right)
    /\ kind(ChainBaseOf(left)) = "Identifier"
    /\ kind(ChainBaseOf(right)) = "Identifier"
    /\ ChainBaseOf(left)[2] = ChainBaseOf(right)[2]

VisitingChains ==
    /\ Visiting
    /\ IsAssignment(Current)
    /\ isPropertyAccessExpression(Current[2])
    /\ isPropertyAccessExpression(Current[4])

C6_SameMember ==
    [][ VisitingChains /\ props(options) =>
            failures' = failures \o
                (IF SameChain(Current[2], Current[4]) THEN <<Finding(RightPath)>> ELSE <<>>)
      ]_vars

(* this.x = this.x walked to the end with the option on: no finding. *)
C6_Witness ==
    /\ pc = "done"
    /\ props(options)
    /\ Statement(Assignment(Chain(ThisKeyword, <<Id("x")>>), Chain(ThisKeyword, <<Id("x")>>)))
    /\ failures = <<>>

(***************************************************************************)
(* C7: with checkProperties true, an assignment between two element        *)
(* accesses yields exactly one finding if the bases are identifiers with   *)
(* the same text and the keys are two identifiers with the same text or    *)
(* two literals with the same text, and no finding otherwise.              *)
(***************************************************************************)
SameKey(leftKey, rightKey) ==
    \/ /\ kind(leftKey) = "Identifier"
       /\ kind(rightKey) = "Identifier"
       /\ leftKey[2] = rightKey[2]
    \/ /\ kind(leftKey) \in {"StringLiteral", "NumericLiteral"}
       /\ kind(rightKey) \in {"StringLiteral", "NumericLiteral"}
       /\ leftKey[2] = rightKey[2]

VisitingElementAccesses ==
    /\ Visiting
    /\ IsAssignment(Current)
    /\ isElementAccessExpression(Current[2])
    /\ isElementAccessExpression(Current[4])

C7_SameElementAccess ==
    [][ VisitingElementAccesses /\ props(options) =>
            LET left == Current[2]
                right == Current[4]
            IN failures' = failures \o
                (IF /\ kind(left[2]) = "Identifier"
                    /\ kind(right[2]) = "Identifier"
                    /\ left[2][2] = right[2][2]
                    /\ SameKey(left[3], right[3])
                 THEN <<Finding(RightPath)>>
                 ELSE <<>>)
      ]_vars

(* a["x"] = a[x] walked to the end with the option on: a literal key and an
   identifier key of the same text do not match. *)
C7_Witness ==
    /\ pc = "done"
    /\ props(options)
    /\ Statement(Assignment(ElementAccessExpression(Id("a"), StringLiteral("x")),
                            ElementAccessExpression(Id("a"), Id("x"))))
    /\ failures = <<>>

(***************************************************************************)
(* C8: a field declaration yields exactly one finding, anchored at its     *)
(* initializer, if its name is an identifier and its initializer is a      *)
(* property access on `this` whose name has the text of the field name,    *)
(* and no finding otherwise; whatever the value of checkProperties.        *)
(***************************************************************************)
VisitingField == Visiting /\ isPropertyDeclaration(Current)

C8_FieldSelfAssigned ==
    [][ VisitingField =>
            LET name == Current[2]
                initializer == Current[3]
            IN failures' = failures \o
                (IF /\ kind(name) = "Identifier"
                    /\ kind(initializer) = "PropertyAccessExpression"
                    /\ initializer[2] = ThisKeyword
                    /\ initializer[3][2] = name[2]
                 THEN <<Finding(CurrentPath \o <<2>>)>>
                 ELSE <<>>)
      ]_vars

(* class C { foo = other.foo; foo = this.foo } walked to the end with
   {props: false}: the second field alone is reported. *)
C8_Witness ==
    /\ pc = "done"
    /\ ruleArguments = <<{<<"props", FALSE>>}>>
    /\ Statement(ClassDeclaration(Id("C"),
          <<PropertyDeclaration(Id("foo"), PropertyAccessExpression(Id("other"), Id("foo"))),
            PropertyDeclaration(Id("foo"), PropertyAccessExpression(ThisKeyword, Id("foo")))>>))
    /\ failures = <<[node |-> <<1, 3, 2>>,
                     failure |-> "variable 'this.foo' is assigned to itself."]>>

(***************************************************************************)
(* C1: no false positives.  A right-hand shorthand property a of an object *)
(* literal is reported only if the value the literal finally holds under   *)
(* key a is the variable a; a right-hand array element at index i is       *)
(* reported only if it is the element assigned to the left target at index *)
(* i and that target is the same variable.                                 *)
(***************************************************************************)
(* The expression an object literal finally holds under key, "unknown" after
   a spread and "absent" when no property sets it. *)
RECURSIVE FinalValueFrom(_, _, _)
FinalValueFrom(properties, key, j) ==
    IF j < 1 THEN <<"absent">>
    ELSE LET property == properties[j]
         IN IF isSpreadAssignment(property) THEN <<"unknown">>
            ELSE IF isShorthandPropertyAssignment(property) /\ property[2][2] = key
                 THEN Identifier(key)
            ELSE IF kind(property) = "PropertyAssignment" /\ property[2][2] = key
                 THEN property[3]
            ELSE FinalValueFrom(properties, key, j - 1)

FinalValue(properties, key) == FinalValueFrom(properties, key, Len(properties))

C1_NoFalsePositive ==
    \A k \in 1..Len(failures) :
        LET path == failures[k].node
            anchor == NodeAt(sourceFile, path)
            parent == NodeAt(sourceFile, Front(path))
        IN /\ isShorthandPropertyAssignment(parent) =>
                LET literal == NodeAt(sourceFile, Front(Front(path)))
                IN FinalValue(literal[2], anchor[2]) = anchor
           /\ isArrayLiteralExpression(parent) =>
                LET i == path[Len(path)]
                    assignment == NodeAt(sourceFile, Front(Front(path)))
                IN /\ \A j \in 1..(i - 1) : ~isSpreadElement(parent[2][j])
                   /\ assignment[2][2][i] = anchor

(***************************************************************************)
(* C3: the option defaults to true whenever its value is not supplied:     *)
(* with no rule arguments, and with a first argument that omits the field, *)
(* property and element accesses are checked and a.x = a.x yields one      *)
(* finding.                                                                *)
(***************************************************************************)
NotSupplied ==
    \/ ruleArguments = <<>>
    \/ \A value \in BOOLEAN : <<"props", value>> \notin ruleArguments[1]

C3_DefaultTrue ==
    pc = "done" /\ NotSupplied =>
        /\ failures = FindingsOver(AllNodes, {<<"props", TRUE>>})
        /\ Statement(Assignment(Chain(Id("a"), <<Id("x")>>), Chain(Id("a"), <<Id("x")>>)))
             => Len(failures) = 1

=============================================================================
